---- MODULE Spec2Model ----
(***************************************************************************)
(* A model of simpleblog (src/src/main.rs): the content root on disk, the  *)
(* four GET handlers (homepage, article, articles, get_feed), the          *)
(* authenticated submission handler post_article and the helpers           *)
(* get_404_error and get_articles.                                         *)
(*                                                                         *)
(* Text.  A Rust String is modelled as a sequence of atoms (TLA+ strings): *)
(* an atom is a run of bytes that the model never splits.  Concatenation,  *)
(* format!, push_str and str::replace then work on sequences of atoms, and *)
(* a file's content is the sequence of atoms written to it.                *)
(***************************************************************************)
EXTENDS Integers, Sequences, FiniteSets, TLC

VARIABLES
    articles_yml,   \* {file_path}articles.yml: [state, data]
    templates,      \* the template files of the content root: name -> [state, data]
    bodies,         \* the article_ids that have a {file_path}articles/{id}.md
    build,          \* "debug" (overflow checks on) or "release" (wrapping)
    pc,             \* per in-flight post_article request: its position
    req,            \* per in-flight post_article request: its inputs
    posts,          \* number of submissions accepted so far
    resp,           \* the last response a handler returned
    nav             \* a reader paging through the article index by its Next links

vars == <<articles_yml, templates, bodies, build, pc, req, posts, resp, nav>>

------------------------------------------------------------------------------
(* Bounds of the model. *)

\* submissions accepted in one behaviour
MaxPosts == 2

\* largest store the article index is paged over
MaxArticles == 26

\* the in-flight post_article requests the server runs at once
Procs == {1, 2}

------------------------------------------------------------------------------
(* Program constants. *)

\* u16: the type of the index query parameter and of num_articles
U16 == 65536

\* the page size of the article index: .take(10), num_articles / 10
PageSize == 10

\* the feed's length: .take(10)
FeedSize == 10

OK == 200
NOT_FOUND == 404
METHOD_NOT_ALLOWED == 405
INTERNAL_SERVER_ERROR == 500

\* SiteConfig, read once at startup
config ==
    [ site_title |-> <<"My blog">>,
      site_description |-> <<"A blog">>,
      site_link |-> <<"https://blog.example">>,
      admin_username |-> "admin",
      admin_password |-> "hunter2" ]

------------------------------------------------------------------------------
(* Strings. *)

Min(a, b) == IF a < b THEN a ELSE b

Range(s) == { s[k] : k \in 1..Len(s) }

\* the bytes of the characters the model compares or converts
CharCode ==
    [ c \in {"-", "0", "1", "2", "3", "4", "5", "6", "7", "8", "9"} |->
        CASE c = "-" -> 45
          [] c = "0" -> 48 [] c = "1" -> 49 [] c = "2" -> 50 [] c = "3" -> 51
          [] c = "4" -> 52 [] c = "5" -> 53 [] c = "6" -> 54 [] c = "7" -> 55
          [] c = "8" -> 56 [] c = "9" -> 57 ]

DigitChars == {"0", "1", "2", "3", "4", "5", "6", "7", "8", "9"}

DigitChar == [ d \in 0..9 |-> CASE d = 0 -> "0" [] d = 1 -> "1" [] d = 2 -> "2"
                                [] d = 3 -> "3" [] d = 4 -> "4" [] d = 5 -> "5"
                                [] d = 6 -> "6" [] d = 7 -> "7" [] d = 8 -> "8"
                                [] d = 9 -> "9" ]

\* format!("{}", n) of an unsigned integer: its decimal digits
RECURSIVE Display(_)
Display(n) == IF n < 10 THEN <<DigitChar[n]>>
              ELSE Display(n \div 10) \o <<DigitChar[n % 10]>>

\* the comparison of two Strings (str::cmp): bytewise lexicographic.
\* -1: Less, 0: Equal, 1: Greater
RECURSIVE StrCmp(_, _)
StrCmp(a, b) ==
    IF a = <<>> /\ b = <<>> THEN 0
    ELSE IF a = <<>> THEN 0 - 1
    ELSE IF b = <<>> THEN 1
    ELSE IF CharCode[Head(a)] < CharCode[Head(b)] THEN 0 - 1
    ELSE IF CharCode[Head(a)] > CharCode[Head(b)] THEN 1
    ELSE StrCmp(Tail(a), Tail(b))

\* the concatenation of a sequence of Strings (push_str in a loop)
RECURSIVE Concat(_)
Concat(ss) ==
    IF ss = <<>> THEN <<>>
    ELSE IF Len(ss) = 1 THEN ss[1]
    ELSE LET half == Len(ss) \div 2
         IN Concat(SubSeq(ss, 1, half)) \o Concat(SubSeq(ss, half + 1, Len(ss)))

\* str::replace(from, to): every occurrence of the token replaced
Replace(s, from, to) ==
    Concat([ k \in 1..Len(s) |-> IF s[k] = from THEN to ELSE <<s[k]>> ])

------------------------------------------------------------------------------
(* struct Article and its renderings. *)

Article(title, article_id, description, date) ==
    [ title |-> title, article_id |-> article_id,
      description |-> description, date |-> date ]

to_preview_html(a) ==
    <<"<div class='article_preview'><h2>">> \o a.title
        \o <<"</h2><div class='preview_content'><p class='article_timestamp'>">>
        \o a.date \o <<"</p><p>">> \o a.description
        \o <<"</p></div>", "<a href='/./articles/">> \o a.article_id
        \o <<"'>Read</a>", "</div>">>

to_preview_xml(a) ==
    <<"<item><title>">> \o a.title \o <<"</title><pubDate>">> \o a.date
        \o <<"</pubDate><description>">> \o a.description
        \o <<"</description>", "<link>">> \o config.site_link
        \o <<"/articles/">> \o a.article_id \o <<"</link>", "</item>">>

\* a variant of ArticleCmp: ascending dates
ArticleCmpAscending(self, other) == StrCmp(self.date, other.date)

\* impl Ord for Article: cmp(self, other) = other.date.cmp(&self.date)
ArticleCmp(self, other) == StrCmp(other.date, self.date)

\* Vec::sort: a stable sort by ArticleCmp
RECURSIVE InsertSorted(_, _)
InsertSorted(x, s) ==
    IF s = <<>> THEN <<x>>
    ELSE IF ArticleCmp(x, Head(s)) < 0 THEN <<x>> \o s
    ELSE <<Head(s)>> \o InsertSorted(x, Tail(s))

RECURSIVE sort(_)
sort(s) == IF s = <<>> THEN <<>>
           ELSE InsertSorted(s[Len(s)], sort(SubSeq(s, 1, Len(s) - 1)))

------------------------------------------------------------------------------
(* serde_yml. *)

FieldKeys == <<"title: ", "article_id: ", "description: ", "date: ">>

\* serde_yml::to_string(&article): a block mapping at column 0, one
\* "key: value" line per field, in the order of the struct's fields
to_string(a) ==
    <<"title: ">> \o a.title \o <<"\n">>
        \o <<"article_id: ">> \o a.article_id \o <<"\n">>
        \o <<"description: ">> \o a.description \o <<"\n">>
        \o <<"date: ">> \o a.date \o <<"\n">>

\* the same record as one entry of a block sequence: "- " before its first
\* key, two spaces before the others
ListEntry(a) ==
    <<"- ", "title: ">> \o a.title \o <<"\n">>
        \o <<"  ", "article_id: ">> \o a.article_id \o <<"\n">>
        \o <<"  ", "description: ">> \o a.description \o <<"\n">>
        \o <<"  ", "date: ">> \o a.date \o <<"\n">>

\* an articles.yml that holds the list `as`
ListFile(as) == Concat([ k \in 1..Len(as) |-> ListEntry(as[k]) ])

\* the runs of atoms between the "\n" atoms of a text (a text with k
\* newlines has k + 1 runs, the last one what follows the last newline)
RECURSIVE Runs(_)
Runs(data) ==
    IF data = <<>> THEN << <<>> >>
    ELSE IF Len(data) = 1
         THEN (IF data[1] = "\n" THEN << <<>>, <<>> >> ELSE << data >>)
    ELSE LET half == Len(data) \div 2
             l == Runs(SubSeq(data, 1, half))
             r == Runs(SubSeq(data, half + 1, Len(data)))
         IN SubSeq(l, 1, Len(l) - 1) \o << l[Len(l)] \o r[1] >> \o Tail(r)

NonEmpty(run) == run # <<>>

\* the lines of a text, the empty ones dropped
SplitLines(data) == SelectSeq(Runs(data), NonEmpty)

\* one line, scanned: "- key: value" opens an entry of a block sequence,
\* "  key: value" continues the entry's mapping, "key: value" is a key of a
\* mapping at column 0; anything else has no reading in a list of mappings
ScanLine(l) ==
    IF Len(l) >= 2 /\ l[1] = "- " /\ l[2] \in Range(FieldKeys)
        THEN [ at |-> "entry", key |-> l[2], val |-> SubSeq(l, 3, Len(l)) ]
    ELSE IF Len(l) >= 2 /\ l[1] = "  " /\ l[2] \in Range(FieldKeys)
        THEN [ at |-> "cont", key |-> l[2], val |-> SubSeq(l, 3, Len(l)) ]
    ELSE IF l[1] \in Range(FieldKeys)
        THEN [ at |-> "top", key |-> l[1], val |-> SubSeq(l, 2, Len(l)) ]
    ELSE [ at |-> "bad", key |-> "", val |-> <<>> ]

\* the scanned lines grouped into the entries of the sequence: an entry
\* runs from its "entry" line to the line before the next one
RECURSIVE Entries(_)
Entries(ls) ==
    IF Len(ls) <= 1 THEN << ls >>
    ELSE LET half == Len(ls) \div 2
             l == Entries(SubSeq(ls, 1, half))
             r == Entries(SubSeq(ls, half + 1, Len(ls)))
         IN IF r[1][1].at = "entry" THEN l \o r
            ELSE SubSeq(l, 1, Len(l) - 1) \o << l[Len(l)] \o r[1] >> \o Tail(r)

\* a mapping has each field of Article exactly once (a missing or a
\* duplicate field is a serde error)
EntryOk(e) ==
    \A f \in Range(FieldKeys) : Cardinality({ k \in 1..Len(e) : e[k].key = f }) = 1

FieldOf(e, f) == e[CHOOSE k \in 1..Len(e) : e[k].key = f].val

EntryArticle(e) ==
    Article(FieldOf(e, "title: "), FieldOf(e, "article_id: "),
            FieldOf(e, "description: "), FieldOf(e, "date: "))

\* serde_yml::from_str::<Vec<Article>>: Ok(list) or Err.  An empty document
\* is the empty list; a block sequence of well-formed mappings is their
\* list; a mapping at column 0 (alone, or after a sequence) is an error
from_str(data) ==
    LET lines == SplitLines(data)
        scanned == [ k \in 1..Len(lines) |-> ScanLine(lines[k]) ]
        entries == Entries(scanned)
    IN IF lines = <<>> THEN [ ok |-> TRUE, val |-> <<>> ]
       ELSE IF \E k \in 1..Len(scanned) : scanned[k].at \in {"bad", "top"}
           THEN [ ok |-> FALSE, val |-> <<>> ]
       ELSE IF scanned[1].at # "entry"
           THEN [ ok |-> FALSE, val |-> <<>> ]
       ELSE IF \E k \in 1..Len(entries) : ~EntryOk(entries[k])
           THEN [ ok |-> FALSE, val |-> <<>> ]
       ELSE [ ok |-> TRUE, val |-> [ k \in 1..Len(entries) |-> EntryArticle(entries[k]) ] ]

------------------------------------------------------------------------------
(* Files of the content root.  A file is absent, holds text, or holds     *)
(* bytes that are not UTF-8 ("binary": File::open succeeds and            *)
(* read_to_string fails).                                                  *)

TemplateNames == {"index.html", "articles.html", "article_template.html", "fnfpage.html"}

TemplateText ==
    [ n \in TemplateNames |->
        CASE n = "index.html" -> <<"<h1>Home</h1>", "{latest_article}", "<hr>">>
          [] n = "articles.html" -> <<"<h1>Articles</h1>", "{articles}", "<nav>", "{links}", "</nav>">>
          [] n = "article_template.html" -> <<"<article>", "{article_content}", "</article>">>
          [] n = "fnfpage.html" -> <<"<h1>Nothing here</h1>">> ]

\* File::open(..) followed by read_to_string(..), as the handlers use them:
\* both failures take the same branch
ReadOk(f) == f.state = "text"

\* markdown::file_to_html of {file_path}articles/{article_id}.md
file_to_html(article_id) ==
    IF article_id \in bodies
    THEN [ ok |-> TRUE, val |-> <<"<h1>">> \o article_id \o <<"</h1>">> ]
    ELSE [ ok |-> FALSE, val |-> <<>> ]

------------------------------------------------------------------------------
(* Responses. *)

Response(status, content_type, body) ==
    [ status |-> status, content_type |-> content_type, body |-> body,
      panicked |-> FALSE ]

\* the handler's task panicked: no response is written
Panic == [ status |-> 0, content_type |-> "", body |-> <<>>, panicked |-> TRUE ]

\* get_404_error: fnfpage.html if it opens, else the built-in page
get_404_error ==
    LET f == templates["fnfpage.html"]
    IN IF f.state = "absent"
       THEN Response(NOT_FOUND, "text/html; charset=utf-8",
                     <<"<h1>404 Page not found</h1><p>Ironic I know</p>">>)
       ELSE IF f.state = "binary"
       THEN Panic       \* read_to_string(..).unwrap()
       ELSE Response(OK, "text/html; charset=utf-8", f.data)

\* get_articles: the list in articles.yml, or Err(())
get_articles_of(f) ==
    IF f.state # "text" THEN [ ok |-> FALSE, val |-> <<>> ]
    ELSE from_str(f.data)

get_articles == get_articles_of(articles_yml)

------------------------------------------------------------------------------
(* The GET handlers. *)

\* take(n) of a sequence
Take(s, n) == SubSeq(s, 1, Min(n, Len(s)))

\* a variant of Skip: one element too many is skipped
SkipOneMore(s, n) == SubSeq(s, n + 2, Len(s))

\* skip(n) of a sequence
Skip(s, n) == SubSeq(s, n + 1, Len(s))

homepage ==
    IF ~ReadOk(templates["index.html"]) THEN get_404_error
    ELSE LET loaded == get_articles
         IN IF ~loaded.ok THEN get_404_error
            ELSE LET article_list == sort(loaded.val)
                     first == Take(article_list, 1)
                     index_contents ==
                        IF first = <<>> THEN templates["index.html"].data
                        ELSE Replace(templates["index.html"].data, "{latest_article}",
                                     to_preview_html(first[1]))
                 IN Response(OK, "text/html; charset=utf-8", index_contents)

article(article_id) ==
    IF ~ReadOk(templates["article_template.html"]) THEN get_404_error
    ELSE LET article_content == file_to_html(article_id)
         IN IF ~article_content.ok THEN get_404_error
            ELSE Response(OK, "text/html; charset=utf-8",
                          Replace(templates["article_template.html"].data,
                                  "{article_content}", article_content.val))

\* a variant of NumPages: the page count rounded up
NumPagesCeil(num_articles) == (num_articles + PageSize - 1) \div PageSize

\* num_pages = num_articles / 10
NumPages(num_articles) == num_articles \div PageSize

\* a variant of nav_buttons: Previous and First offered on every page
nav_buttons_always_back(true_index, num_pages) ==
    <<"<ul class = 'article_bar'>">>
        \o <<"<li><a href=articles?index=", "0", ">First</a></li>">>
        \o <<"<li><a href=articles?index=">>
        \o Display(IF true_index = 0 THEN 0 ELSE true_index - 1)
        \o <<">Previous</a></li>">>
        \o (IF true_index < num_pages
            THEN <<"<li><a href=articles?index=">> \o Display(true_index + 1)
                    \o <<">Next</a></li>">>
                    \o <<"<li><a href=articles?index=">> \o Display(num_pages)
                    \o <<">Last</a></li>">>
            ELSE <<>>)
        \o <<"</ul>">>

\* the navigation bar of the article index
nav_buttons(true_index, num_pages) ==
    <<"<ul class = 'article_bar'>">>
        \o (IF true_index # 0
            THEN <<"<li><a href=articles?index=", "0", ">First</a></li>">>
                    \o <<"<li><a href=articles?index=">> \o Display(true_index - 1)
                    \o <<">Previous</a></li>">>
            ELSE <<>>)
        \o (IF true_index < num_pages
            THEN <<"<li><a href=articles?index=">> \o Display(true_index + 1)
                    \o <<">Next</a></li>">>
                    \o <<"<li><a href=articles?index=">> \o Display(num_pages)
                    \o <<">Last</a></li>">>
            ELSE <<>>)
        \o <<"</ul>">>

\* articles: `index` is the query's Option<u16>, <<>> for None and <<i>>
\* for Some(i).  true_index * 10 is a u16 product: past 65535 it panics in a
\* build with overflow checks and wraps in one without
articles(index) ==
    LET true_index == IF index = <<>> THEN 0 ELSE index[1]
        loaded == get_articles
    IN IF ~loaded.ok THEN get_404_error
       ELSE LET sorted == sort(loaded.val)
            IN IF Len(sorted) >= U16 THEN Panic     \* try_into().unwrap()
               ELSE IF true_index * PageSize >= U16 /\ build = "debug" THEN Panic
               ELSE LET num_pages == NumPages(Len(sorted))
                        offset == (true_index * PageSize) % U16
                        shown == Take(Skip(sorted, offset), PageSize)
                        content == Concat([ k \in 1..Len(shown) |-> to_preview_html(shown[k]) ])
                    IN IF ~ReadOk(templates["articles.html"]) THEN get_404_error
                       ELSE Response(OK, "text/html; charset=utf-8",
                                Replace(Replace(templates["articles.html"].data,
                                                "{articles}", content),
                                        "{links}", nav_buttons(true_index, num_pages)))

get_feed ==
    LET loaded == get_articles
    IN IF ~loaded.ok THEN get_404_error
       ELSE LET prev_articles == Take(sort(loaded.val), FeedSize)
                content == Concat([ k \in 1..Len(prev_articles) |->
                                        to_preview_xml(prev_articles[k]) ])
            IN Response(OK, "text/xml; charset=utf-8",
                        <<"<rss version=\"2.0\"><channel><title>">> \o config.site_title
                            \o <<"</title><link>">> \o config.site_link
                            \o <<"</link><description>">> \o config.site_description
                            \o <<"</description>">> \o content
                            \o <<"</channel></rss>">>)

------------------------------------------------------------------------------
(* post_article.  The framework has extracted the JSON body into an        *)
(* Article and the Basic credentials before the handler's body runs.  The  *)
(* body touches the file system twice, at OpenOptions::open and at         *)
(* File::write; other requests may run between the two.                    *)

NoReq == [ username |-> "", password |-> "", article_data |-> Article(<<>>, <<>>, <<>>, <<>>) ]

\* a variant of AuthOk: the password is not compared
AuthOkUsernameOnly(r) == r.username = config.admin_username

\* the two credential checks: exact string equality with the configuration
AuthOk(r) == r.username = config.admin_username /\ r.password = config.admin_password

\* a variant of AppendTo: the file is opened without append(true), so the
\* write lands at offset 0
WriteAtStart(data, bytes) ==
    bytes \o SubSeq(data, Len(bytes) + 1, Len(data))

\* write(2) on a descriptor opened with append(true): the bytes land at the
\* end of the file, whatever other descriptors have written meanwhile
AppendTo(data, bytes) == data \o bytes

\* the counts of bytes a write of a buffer of `len` bytes may report: all
\* of it, or fewer (a short write), down to none
WriteCounts(len) == {0, len \div 2, len}

\* the requests whose descriptor on articles.yml is open
Writers == { p \in Procs : pc[p] = "opened" }

------------------------------------------------------------------------------
(* What a client reads off a response body. *)

\* the decimal number a run of digits denotes (the parse of a query's u16)
RECURSIVE ParseNum(_)
ParseNum(digits) ==
    IF digits = <<>> THEN 0
    ELSE ParseNum(SubSeq(digits, 1, Len(digits) - 1)) * 10
            + (CharCode[digits[Len(digits)]] - CharCode["0"])

\* the k-th smallest element of a set of numbers
Nth(S, k) == CHOOSE x \in S : Cardinality({ y \in S : y < x }) = k - 1

Positions(body, atom) == { k \in 1..Len(body) : body[k] = atom }

\* the texts between an `open` atom and the first `close` atom after it, in
\* the order they appear
Between(body, open, close) ==
    LET opens == { j \in Positions(body, open) :
                        \E k \in Positions(body, close) : k > j }
        end(j) == CHOOSE k \in Positions(body, close) :
                        k > j /\ \A m \in Positions(body, close) : m > j => k <= m
    IN [ i \in 1..Cardinality(opens) |-> SubSeq(body, Nth(opens, i) + 1, end(Nth(opens, i)) - 1) ]

\* the article_ids of the previews on a page, in order
ShownIds(body) == Between(body, "<a href='/./articles/", "'>Read</a>")

\* the article_ids and the dates of the items of a feed, in order
FeedIds(body) == Between(body, "/articles/", "</link>")
FeedDates(body) == Between(body, "</title><pubDate>", "</pubDate><description>")

LinkClose ==
    [ label \in {"First", "Previous", "Next", "Last"} |->
        CASE label = "First" -> ">First</a></li>"
          [] label = "Previous" -> ">Previous</a></li>"
          [] label = "Next" -> ">Next</a></li>"
          [] label = "Last" -> ">Last</a></li>" ]

\* the indexes the links labelled `label` of a page target
LinkTargets(body, label) ==
    { ParseNum(SubSeq(body, j + 1, k - 1)) :
        <<j, k>> \in { jk \in Positions(body, "<li><a href=articles?index=")
                                \X Positions(body, LinkClose[label]) :
                        /\ jk[1] + 1 < jk[2]
                        /\ \A m \in (jk[1] + 1)..(jk[2] - 1) : body[m] \in DigitChars } }

------------------------------------------------------------------------------
(* Inputs. *)

A(id, date) == Article(<<"Title of ", id>>, <<id>>, <<"About ", id>>, date)

Hello == A("hello", <<"2", "0", "2", "4", "-", "0", "1", "-", "0", "5">>)
World == A("world", <<"2", "0", "2", "4", "-", "1", "0", "-", "0", "1">>)
Older == A("older", <<"2", "0", "2", "3", "-", "1", "2", "-", "3", "1">>)
\* not in yyyy-mm-dd form: nothing validates a date
Loose == A("loose", <<"9", "-", "1", "-", "1">>)

TextFile(data) == [ state |-> "text", data |-> data ]
Absent == [ state |-> "absent", data |-> <<>> ]
Binary == [ state |-> "binary", data |-> <<>> ]

\* an entry that lacks its date: the list does not deserialize
Truncated == SubSeq(ListEntry(Hello), 1, Len(ListEntry(Hello)) - 6)

\* the stores a server that accepts submissions starts from
StoreFiles ==
    { Absent, TextFile(<<>>), TextFile(ListFile(<<Older>>)),
      TextFile(ListFile(<<Hello, World>>)) }

\* the stores the read-only handlers are run over
ReadStoreFiles ==
    { Absent, Binary, TextFile(<<>>), TextFile(Truncated),
      TextFile(ListFile(<<Older>>)),
      TextFile(ListFile(<<Hello, World, Older>>)),
      TextFile(ListFile(<<Older, Loose, Hello, Older>>)),
      TextFile(ListFile(<<Hello>>) \o to_string(World)),
      TextFile(ListFile([ k \in 1..12 |->
            Article(<<"Post">>, <<"post-">> \o Display(k), <<"Text">>, Display(k)) ])) }

\* the n-th generated article: its date is the decimal n, so that the
\* lexical order of the dates is not the numeric one
Generated(n) ==
    Article(<<"Post">>, <<"post-">> \o Display(n), <<"Text">>, Display(n))

GeneratedStore(n) == TextFile(ListFile([ k \in 1..n |-> Generated(k) ]))

AllText == [ n \in TemplateNames |-> TextFile(TemplateText[n]) ]

Usernames == {"admin", "Admin"}
Passwords == {"hunter2", "Hunter2"}
Submitted == {World, Loose}
ArticleIds == {<<"hello">>, <<"ghost">>}

\* index query parameters: absent, small, the last one whose product with
\* 10 fits a u16, the first one whose product does not, and the largest
IndexInputs == {<<>>, <<0>>, <<1>>}
PageIndexInputs == {<<>>, <<0>>, <<1>>, <<2>>, <<3>>, <<6553>>, <<6554>>, <<65535>>}

Request(handler, arg, r) == [ handler |-> handler, arg |-> arg, r |-> r ]

NoResp == Request("", <<>>, Response(0, "", <<>>))

NoNav == [ state |-> "init", index |-> 0, loads |-> 0, body |-> <<>>, seen |-> <<>> ]

------------------------------------------------------------------------------
(* Actions. *)

Frame == UNCHANGED <<templates, bodies, build>>

HomepageReq ==
    /\ resp' = Request("homepage", <<>>, homepage)
    /\ Frame /\ UNCHANGED <<articles_yml, pc, req, posts, nav>>

ArticleReq(article_id) ==
    /\ resp' = Request("article", article_id, article(article_id))
    /\ Frame /\ UNCHANGED <<articles_yml, pc, req, posts, nav>>

ArticlesReq(index) ==
    /\ resp' = Request("articles", index, articles(index))
    /\ Frame /\ UNCHANGED <<articles_yml, pc, req, posts, nav>>

FeedReq ==
    /\ resp' = Request("get_feed", <<>>, get_feed)
    /\ Frame /\ UNCHANGED <<articles_yml, pc, req, posts, nav>>

\* a submission arrives
PostRecv(p, username, password, article_data) ==
    /\ pc[p] = "idle"
    /\ posts < MaxPosts
    /\ pc' = [pc EXCEPT ![p] = "recv"]
    /\ req' = [req EXCEPT ![p] = [ username |-> username, password |-> password,
                                   article_data |-> article_data ]]
    /\ posts' = posts + 1
    /\ Frame /\ UNCHANGED <<articles_yml, resp, nav>>

\* the credential checks and OpenOptions::new().write(true).append(true).open
PostAuthOpen(p) ==
    /\ pc[p] = "recv"
    /\ IF ~AuthOk(req[p])
       THEN /\ resp' = Request("post_article", <<req[p].username, req[p].password>>, Response(METHOD_NOT_ALLOWED, "", <<>>))
            /\ pc' = [pc EXCEPT ![p] = "idle"]
            /\ req' = [req EXCEPT ![p] = NoReq]
       ELSE IF articles_yml.state = "absent"
       THEN /\ resp' = Request("post_article", <<req[p].username, req[p].password>>, Response(INTERNAL_SERVER_ERROR, "", <<>>))
            /\ pc' = [pc EXCEPT ![p] = "idle"]
            /\ req' = [req EXCEPT ![p] = NoReq]
       ELSE /\ pc' = [pc EXCEPT ![p] = "opened"]
            /\ UNCHANGED <<req, resp>>
    /\ Frame /\ UNCHANGED <<articles_yml, posts, nav>>

\* serde_yml::to_string (which cannot fail for a struct of four Strings)
\* and file.write: one write call, whose count of bytes written (n, at most
\* the buffer's length) the handler ignores
PostWrite(p) ==
    /\ pc[p] = "opened"
    /\ LET serialized_data == to_string(req[p].article_data)
       IN \E n \in WriteCounts(Len(serialized_data)) :
            /\ articles_yml' = [articles_yml EXCEPT
                    !.data = AppendTo(@, SubSeq(serialized_data, 1, n))]
            /\ resp' = Request("post_article", <<req[p].username, req[p].password>>, Response(OK, "", <<>>))
    /\ pc' = [pc EXCEPT ![p] = "idle"]
    /\ req' = [req EXCEPT ![p] = NoReq]
    /\ Frame /\ UNCHANGED <<posts, nav>>

\* file.write fails: nothing is written
PostWriteErr(p) ==
    /\ pc[p] = "opened"
    /\ resp' = Request("post_article", <<req[p].username, req[p].password>>, Response(INTERNAL_SERVER_ERROR, "", <<>>))
    /\ pc' = [pc EXCEPT ![p] = "idle"]
    /\ req' = [req EXCEPT ![p] = NoReq]
    /\ Frame /\ UNCHANGED <<articles_yml, posts, nav>>

Init ==
    /\ articles_yml \in StoreFiles
    /\ templates \in { AllText, [AllText EXCEPT !["fnfpage.html"] = Absent] }
    /\ bodies = {<<"hello">>}
    /\ build \in {"debug", "release"}
    /\ pc = [ p \in Procs |-> "idle" ]
    /\ req = [ p \in Procs |-> NoReq ]
    /\ posts = 0
    /\ resp = NoResp
    /\ nav = NoNav

Next ==
    \/ HomepageReq
    \/ \E id \in ArticleIds : ArticleReq(id)
    \/ \E index \in IndexInputs : ArticlesReq(index)
    \/ FeedReq
    \/ \E p \in Procs, u \in Usernames, pw \in Passwords, a \in Submitted :
            PostRecv(p, u, pw, a)
    \/ \E p \in Procs : PostAuthOpen(p)
    \/ \E p \in Procs : PostWrite(p)
    \/ \E p \in Procs : PostWriteErr(p)

Spec == Init /\ [][Next]_vars

------------------------------------------------------------------------------
(* The read-only handlers over a content root that nothing changes. *)

InitRead ==
    /\ articles_yml \in ReadStoreFiles
    /\ templates \in
                { [ n \in TemplateNames |-> IF n \in missing THEN Absent
                                              ELSE IF n \in broken THEN Binary
                                              ELSE TextFile(TemplateText[n]) ] :
                    <<missing, broken>> \in { mb \in (SUBSET TemplateNames) \X (SUBSET TemplateNames) :
                                                mb[1] \cap mb[2] = {} } }
    /\ bodies = {<<"hello">>}
    /\ build \in {"debug", "release"}
    /\ pc = [ p \in Procs |-> "idle" ]
    /\ req = [ p \in Procs |-> NoReq ]
    /\ posts = 0
    /\ resp = NoResp
    /\ nav = NoNav

NextRead ==
    \/ HomepageReq
    \/ \E id \in ArticleIds : ArticleReq(id)
    \/ \E index \in IndexInputs : ArticlesReq(index)
    \/ FeedReq

SpecRead == InitRead /\ [][NextRead]_vars

------------------------------------------------------------------------------
(* The article index over stores of 0..MaxArticles articles, and a reader  *)
(* who opens index 0 and follows the Next link while the page has one     *)
(* (nav.loads counts the pages the reader has loaded).                     *)

NavStart ==
    /\ nav.state = "init"
    /\ LET r == articles(<<0>>)
       IN /\ resp' = Request("articles", <<0>>, r)
          /\ nav' = [ state |-> "at", index |-> 0, loads |-> 1, body |-> r.body,
                      seen |-> ShownIds(r.body) ]
    /\ Frame /\ UNCHANGED <<articles_yml, pc, req, posts>>

NavFollow ==
    /\ nav.state = "at"
    /\ \E target \in LinkTargets(nav.body, "Next") :
        /\ target < U16
        /\ LET r == articles(<<target>>)
           IN /\ resp' = Request("articles", <<target>>, r)
              /\ nav' = [ state |-> "at", index |-> target, loads |-> nav.loads + 1,
                          body |-> r.body, seen |-> nav.seen \o ShownIds(r.body) ]
    /\ Frame /\ UNCHANGED <<articles_yml, pc, req, posts>>

InitPage ==
    /\ \E n \in 0..MaxArticles : articles_yml = GeneratedStore(n)
    /\ templates = AllText
    /\ bodies = {}
    /\ build \in {"debug", "release"}
    /\ pc = [ p \in Procs |-> "idle" ]
    /\ req = [ p \in Procs |-> NoReq ]
    /\ posts = 0
    /\ resp = NoResp
    /\ nav = NoNav

NextPage ==
    \/ \E index \in PageIndexInputs : ArticlesReq(index)
    \/ NavStart
    \/ NavFollow

SpecPage == InitPage /\ [][NextPage]_vars

------------------------------------------------------------------------------
(* The vocabulary of the properties. *)

\* a is lexically less than b: a is a proper prefix of b, or at the first
\* place where they differ a's byte is the smaller
LexLess(a, b) ==
    \E k \in 1..Len(b) :
        /\ k <= Len(a) + 1
        /\ SubSeq(a, 1, k - 1) = SubSeq(b, 1, k - 1)
        /\ (k = Len(a) + 1 \/ CharCode[a[k]] < CharCode[b[k]])

LexGeq(a, b) == ~LexLess(a, b)

Count(s, x) == Cardinality({ k \in 1..Len(s) : s[k] = x })

IsPermutation(s, t) ==
    /\ Len(s) = Len(t)
    /\ \A x \in Range(s) \cup Range(t) : Count(s, x) = Count(t, x)

IsPrefix(s, t) == Len(s) <= Len(t) /\ SubSeq(t, 1, Len(s)) = s

GetHandlers == {"homepage", "article", "articles", "get_feed"}

\* the content a GET request asks for cannot be rendered
RenderFails(handler, arg) ==
    CASE handler = "homepage" -> ~ReadOk(templates["index.html"]) \/ ~get_articles.ok
      [] handler = "article" -> ~ReadOk(templates["article_template.html"]) \/ arg \notin bodies
      [] handler = "articles" -> ~get_articles.ok \/ ~ReadOk(templates["articles.html"])
      [] handler = "get_feed" -> ~get_articles.ok

------------------------------------------------------------------------------
(* C1.  A submission with correct credentials that returns the success     *)
(* status while no other writer runs, on a store that held a well-formed   *)
(* list, leaves a store whose next load succeeds and contains the          *)
(* submitted record and every record that was loadable before.             *)
C1_RoundTrip ==
    [][ \A p \in Procs :
          ( /\ pc[p] = "opened" /\ pc'[p] = "idle"
            /\ resp'.handler = "post_article" /\ resp'.r.status = OK
            /\ Writers = {p}
            /\ articles_yml.state = "text" /\ get_articles.ok )
          => LET after == get_articles_of(articles_yml')
             IN /\ after.ok
                /\ req[p].article_data \in Range(after.val)
                /\ Range(get_articles.val) \subseteq Range(after.val) ]_vars

(* C2.  A submission whose username or password differs from the           *)
(* configured one returns the auth-failure status, which is neither the    *)
(* success nor the not-found status, and the store is neither opened for   *)
(* append nor changed.                                                     *)
C2_AuthFailure ==
    [][ \A p \in Procs :
          ( /\ pc[p] = "recv" /\ pc'[p] # "recv"
            /\ (req[p].username # config.admin_username
                    \/ req[p].password # config.admin_password) )
          => /\ resp' = Request("post_article", <<req[p].username, req[p].password>>,
                                Response(METHOD_NOT_ALLOWED, "", <<>>))
             /\ METHOD_NOT_ALLOWED \notin {OK, NOT_FOUND}
             /\ pc'[p] = "idle"
             /\ articles_yml' = articles_yml ]_vars

\* a submission with the right username and a password that differs in case
\* only was answered with the auth-failure status
C2_Witness ==
    /\ resp.handler = "post_article"
    /\ resp.arg = <<"admin", "Hunter2">>
    /\ resp.r.status = METHOD_NOT_ALLOWED

(* C3.  Every content-rendering failure of the homepage, article, article  *)
(* index and feed handlers is answered with status 404, whether or not the *)
(* content root has an fnfpage.html.                                       *)
C3_NotFound ==
    (resp.handler \in GetHandlers /\ RenderFails(resp.handler, resp.arg))
        => (~resp.r.panicked /\ resp.r.status = NOT_FOUND)

(* C7.  The order the handlers sort by is a permutation of the loaded      *)
(* articles in which each date is lexically greater than or equal to the   *)
(* next; the homepage shows the preview of an article whose date is a      *)
(* lexical maximum, and the feed shows the first 10 of the order.          *)
C7_Ordering ==
    get_articles.ok =>
        LET loaded == get_articles.val
            ordered == sort(loaded)
        IN /\ IsPermutation(ordered, loaded)
           /\ \A k \in 1..(Len(ordered) - 1) :
                    LexGeq(ordered[k].date, ordered[k + 1].date)
           /\ (resp.handler = "homepage" /\ ReadOk(templates["index.html"]) /\ loaded # <<>>)
                => \E a \in Range(loaded) :
                    /\ \A b \in Range(loaded) : LexGeq(a.date, b.date)
                    /\ resp.r = Response(OK, "text/html; charset=utf-8",
                            Replace(templates["index.html"].data, "{latest_article}",
                                    to_preview_html(a)))
           /\ resp.handler = "get_feed"
                => /\ resp.r.status = OK
                   /\ FeedIds(resp.r.body) =
                        [ k \in 1..Min(FeedSize, Len(ordered)) |-> ordered[k].article_id ]
                   /\ FeedDates(resp.r.body) =
                        [ k \in 1..Min(FeedSize, Len(ordered)) |-> ordered[k].date ]

\* a feed of a store of more than 10 articles: 10 items, led by the date
\* that is lexically (not numerically) the greatest
C7_Witness ==
    /\ resp.handler = "get_feed"
    /\ get_articles.ok /\ Len(get_articles.val) > FeedSize
    /\ Len(FeedDates(resp.r.body)) = FeedSize
    /\ FeedDates(resp.r.body)[1] = <<"9">>
    /\ FeedDates(resp.r.body)[FeedSize] = <<"1", "1">>

(* C8.  The store is append-only: a step leaves the old content of         *)
(* articles.yml a prefix of the new; the GET handlers leave the file       *)
(* unchanged; a step that changes it is the write of one submission and    *)
(* adds, at the end, leading bytes of that submission's serialized record. *)
C8_AppendOnly ==
    [][ /\ articles_yml'.state = articles_yml.state
        /\ IsPrefix(articles_yml.data, articles_yml'.data)
        /\ (resp' # resp /\ resp'.handler \in GetHandlers) => articles_yml' = articles_yml
        /\ articles_yml' # articles_yml
            => \E p \in Writers :
                /\ pc'[p] = "idle"
                /\ \E n \in 1..Len(to_string(req[p].article_data)) :
                      articles_yml'.data = articles_yml.data
                            \o SubSeq(to_string(req[p].article_data), 1, n) ]_vars

\* a store that held one record, with the whole serialized record of a
\* submission after it
C8_Witness ==
    /\ articles_yml.data = ListFile(<<Older>>) \o to_string(World)
    /\ resp.handler = "post_article" /\ resp.r.status = OK

------------------------------------------------------------------------------
(* The article index. *)

\* the index a response of the article index answers (None is 0)
PageIndex == IF resp.arg = <<>> THEN 0 ELSE resp.arg[1]

\* the last response is a page of the article index, rendered from a
\* loadable store and the articles.html template
Rendered ==
    /\ resp.handler = "articles"
    /\ get_articles.ok
    /\ ReadOk(templates["articles.html"])
    /\ ~resp.r.panicked

StoredIds == [ k \in 1..Len(get_articles.val) |-> get_articles.val[k].article_id ]

\* the reader has reached a page without a Next link
NavDone == nav.state = "at" /\ LinkTargets(nav.body, "Next") = {}

(* C4.  For every index i of the u16 range and every loadable list, the    *)
(* article index answers without error and shows exactly the articles at   *)
(* positions [10*i, 10*i+10) of the date-ordered list, clamped to its      *)
(* length: at most 10, and none when 10*i is at or past the length.        *)
C4_Paginate ==
    (resp.handler = "articles" /\ get_articles.ok /\ ReadOk(templates["articles.html"]))
        => LET ordered == sort(get_articles.val)
               lo == Min(PageSize * PageIndex, Len(ordered))
               hi == Min(PageSize * PageIndex + PageSize, Len(ordered))
           IN /\ ~resp.r.panicked
              /\ resp.r.status = OK
              /\ Len(ShownIds(resp.r.body)) <= PageSize
              /\ ShownIds(resp.r.body) = [ k \in 1..(hi - lo) |-> ordered[lo + k].article_id ]

(* C5, as claimed.  With 25 stored articles no page of the article index   *)
(* has a Last link that targets index 2.                                   *)
C5_NoLastLinkTo2 ==
    (Rendered /\ Len(get_articles.val) = 25)
        => 2 \notin LinkTargets(resp.r.body, "Last")

(* C5, amended.  With 25 stored articles the pages at index 0 and 1 have a *)
(* Last link, and it targets index 2 (the page count, 25 / 10); the pages  *)
(* from index 2 on have no Next and no Last link, and index 2 shows the    *)
(* last 5 articles.                                                        *)
C5_LastLinkAt25 ==
    (Rendered /\ Len(get_articles.val) = 25)
        => /\ LinkTargets(resp.r.body, "Last") = (IF PageIndex < 2 THEN {2} ELSE {})
           /\ PageIndex >= 2 => LinkTargets(resp.r.body, "Next") = {}
           /\ PageIndex = 2 =>
                ShownIds(resp.r.body) =
                    [ k \in 1..5 |-> sort(get_articles.val)[20 + k].article_id ]

\* index 0 of a store of 25 articles, with its Last link to index 2
C5_Witness ==
    /\ Rendered /\ Len(get_articles.val) = 25
    /\ resp.arg = <<0>>
    /\ LinkTargets(resp.r.body, "Last") = {2}
    /\ Len(ShownIds(articles(<<2>>).body)) = 5

(* C6.  A page of the article index has the First and Previous links iff   *)
(* its index i is not 0 (First to 0, Previous to i-1) and the Next and     *)
(* Last links iff i < floor(n/10) (Next to i+1); at index 0 of a store of  *)
(* fewer than 10 articles there is no Next or Last link and every article  *)
(* is shown.                                                               *)
C6_NavLinks ==
    Rendered =>
        LET i == PageIndex
            n == Len(get_articles.val)
            body == resp.r.body
        IN /\ LinkTargets(body, "First") = (IF i # 0 THEN {0} ELSE {})
           /\ LinkTargets(body, "Previous") = (IF i # 0 THEN {i - 1} ELSE {})
           /\ LinkTargets(body, "Next") = (IF i < n \div 10 THEN {i + 1} ELSE {})
           /\ (LinkTargets(body, "Last") # {}) <=> (i < n \div 10)
           /\ (i = 0 /\ n < 10)
                => /\ LinkTargets(body, "Next") = {} /\ LinkTargets(body, "Last") = {}
                   /\ IsPermutation(ShownIds(body), StoredIds)

\* a middle page: all four links
C6_Witness ==
    /\ Rendered /\ Len(get_articles.val) = 25
    /\ resp.arg = <<1>>
    /\ LinkTargets(resp.r.body, "First") = {0}
    /\ LinkTargets(resp.r.body, "Previous") = {0}
    /\ LinkTargets(resp.r.body, "Next") = {2}
    /\ LinkTargets(resp.r.body, "Last") # {}

\* every article has been shown exactly once when the reader is done
ShownOnce == NavDone => IsPermutation(nav.seen, StoredIds)

\* the pages (of the store as it is) that the Next and Last links target
LinkedPages == LinkTargets(resp.r.body, "Next") \cup LinkTargets(resp.r.body, "Last")

(* C10, as claimed (its safety part).  When the reader who follows the     *)
(* Next links from index 0 reaches a page without one, every stored        *)
(* article has been shown on exactly one visited page; and every page a    *)
(* shown Next or Last link targets holds at least one article.             *)
C10_TargetsHoldArticles ==
    /\ ShownOnce
    /\ Rendered => \A t \in LinkedPages : Len(ShownIds(articles(<<t>>).body)) >= 1

(* C10, amended.  The reader reaches a page without a Next link after      *)
(* finitely many steps (the k-th page loaded is index k-1, no index past   *)
(* floor(n/10) is loaded, and the page at floor(n/10) has no Next link, so *)
(* at most floor(n/10)+1 pages are loaded), having been shown every stored *)
(* article exactly once; and every page a shown Next or Last link targets  *)
(* holds at least one article, except the page at index n/10 when n is a   *)
(* positive multiple of 10, which is empty.                                *)
C10_Traversal ==
    LET n == Len(get_articles.val)
    IN /\ nav.state = "at"
            => /\ nav.index = nav.loads - 1
               /\ nav.index <= n \div 10
               /\ nav.index = n \div 10 => NavDone
               /\ ~NavDone => Len(nav.seen) = 10 * nav.loads
       /\ ShownOnce
       /\ Rendered =>
            \A t \in LinkedPages :
                LET held == Len(ShownIds(articles(<<t>>).body))
                IN IF n > 0 /\ n % 10 = 0 /\ t = n \div 10
                   THEN held = 0
                   ELSE held >= 1

\* the reader is done with a store of 20 articles: three pages visited, the
\* third one empty
C10_Witness ==
    /\ NavDone
    /\ Len(get_articles.val) = 20
    /\ nav.index = 2 /\ nav.loads = 3
    /\ Len(nav.seen) = 20
    /\ ShownIds(nav.body) = <<>>

====
